---- MODULE Spec2Model ----
(***************************************************************************)
(* Model of the anomaly-detection section of create_visualizations.py      *)
(* (lines 107-126): StandardScaler.fit_transform, IsolationForest          *)
(* (contamination=0.1, random_state=42).fit_predict, score_samples, the    *)
(* is_anomaly column and anomaly_count.                                    *)
(*                                                                         *)
(* The script delegates to scikit-learn; each library call is modelled by  *)
(* what the library does at that call (StandardScaler, IsolationForest,    *)
(* ExtraTreeRegressor with splitter="random", numpy.percentile).           *)
(*                                                                         *)
(* Real numbers are fixed-point integers:                                  *)
(*   feature values and standardized values   in 1/FP                      *)
(*   path lengths                             in 1/1000                    *)
(*   anomaly scores                           in 1/ScoreFP                 *)
(*   offset_ (the threshold)                  in 1/(100 * ScoreFP)         *)
(* The seeded generator (random_state=42) is a nondeterministic choice of  *)
(* the split feature and of the split threshold at every node.             *)
(***************************************************************************)
EXTENDS Integers, Sequences, FiniteSets, TLC

\* ------------------------------------------------------------------ bounds
\* Largest number of records of df_detailed (the script builds 500).
MaxN == 5
\* Largest number of trees of the forest (n_estimators; the default is 100).
NumTrees == 2
\* Largest product records * trees of a run.
MaxWork == 8
\* ThresholdSpec: the longest short table of scores, the largest multiplier
\* and the largest step of the score tables.
MaxLen == 12
MaxMult == 4
MaxStep == 3

\* Fixed-point unit of feature values.
FP == 100
\* Fixed-point unit of anomaly scores.
ScoreFP == 10000

\* ------------------------------------------------------- program constants
\* contamination=0.1, as the percentile 100.0 * contamination.
ContaminationPct == 10
\* max_samples="auto": min(256, n_samples).
MaxSamplesAuto == 256

\* Two of the four columns of features_for_ml are kept, the first with three
\* raw values a record may hold in it and the second with two: enough for
\* tables with a constant column, with repeated records and with records
\* that take several splits to isolate.
FeatureValues == <<{0, 1, 2}, {0, 1}>>

Features == 1..Len(FeatureValues)

Rows == {r \in [Features -> UNION {FeatureValues[f] : f \in Features}] :
           \A f \in Features : r[f] \in FeatureValues[f]}

\* Rows in lexicographic order.
RowLeq(r, q) ==
  \E f \in Features \cup {Len(FeatureValues) + 1} :
    /\ \A g \in Features : g < f => r[g] = q[g]
    /\ f \in Features => r[f] < q[f]

\* X = df_detailed[features_for_ml].values for a table of n records.  Every
\* step treats the records alike, whatever their order in the table, so one
\* order stands for each multiset of records: the sorted one.
Tables(n) == {M \in [1..n -> Rows] : \A i \in 1..(n - 1) : RowLeq(M[i], M[i + 1])}

Datasets == UNION {Tables(n) : n \in 2..MaxN}

\* The runs checked: a table and a number of trees.
Runs ==
  {c \in Datasets \X (1..NumTrees) : Len(c[1]) * c[2] <= MaxWork}

VARIABLES
  pc,             \* the statement the script is at
  X,              \* raw feature matrix (line 111)
  n_estimators,   \* iso_forest.n_estimators (line 118)
  scaler,         \* StandardScaler: mean_, var_, scale_ (<<>> before fit)
  X_scaled,       \* standardized matrix (line 115)
  estimators_,    \* iso_forest.estimators_: the finished trees
  tree,           \* the tree under construction: node id -> node
  stack,          \* the builder's stack of nodes still to expand
  offset_,        \* iso_forest.offset_, in 1/(100*ScoreFP); <<>> before fit
  anomaly,        \* df_detailed['anomaly'] (line 119)
  anomaly_score,  \* df_detailed['anomaly_score'] (line 120)
  is_anomaly,     \* df_detailed['is_anomaly'] (line 123)
  anomaly_count,  \* anomaly_count (line 125)
  score_table     \* <<>>, or the scores a fitted forest gives the records of
                  \* a table whose trees are not built (ThresholdSpec)

vars == <<pc, X, n_estimators, scaler, X_scaled, estimators_, tree, stack, offset_,
          anomaly, anomaly_score, is_anomaly, anomaly_count, score_table>>

\* ----------------------------------------------------------------- helpers
\* The sum of the entries lo..hi of a sequence, by halves.
RECURSIVE SumRange(_, _, _)
SumRange(s, lo, hi) ==
  IF lo > hi THEN 0
  ELSE IF lo = hi THEN s[lo]
  ELSE LET mid == (lo + hi) \div 2
       IN SumRange(s, lo, mid) + SumRange(s, mid + 1, hi)

SumSeq(s) == SumRange(s, 1, Len(s))

Column(M, f) == [i \in 1..Len(M) |-> M[i][f]]

SetMin(S) == CHOOSE v \in S : \A w \in S : v <= w

\* floor(sqrt(v)) for v >= 0.
Isqrt(v) == CHOOSE r \in 0..(v + 1) : r * r <= v /\ (r + 1) * (r + 1) > v

RECURSIVE Pow2(_)
Pow2(k) == IF k = 0 THEN 1 ELSE 2 * Pow2(k - 1)

\* ceil(log2(n)) for n >= 1.
CeilLog2(n) == CHOOSE k \in 0..n : Pow2(k) >= n /\ (k = 0 \/ Pow2(k - 1) < n)

\* ---------------------------------------------------------- StandardScaler
\* HandleZerosInScale with a smallest positive value as the floor, not 1.
HandleZerosEpsilon(s) == IF s = 0 THEN 1 ELSE s

\* StandardScaler.fit: per feature the mean, the population variance and the
\* scale sqrt(var), in which a zero is replaced by 1 (_handle_zeros_in_scale);
\* fit raises nothing for a constant feature.
HandleZerosInScale(s) == IF s = 0 THEN FP ELSE s

ScalerFit(M) ==
  LET n == Len(M)
      mean(f) == (SumSeq(Column(M, f)) * FP) \div n
      var(f) == LET c == Column(M, f)
                    sq == [i \in 1..n |-> c[i] * c[i]]
                IN ((n * SumSeq(sq) - SumSeq(c) * SumSeq(c)) * FP * FP) \div (n * n)
  IN [mean_  |-> [f \in Features |-> mean(f)],
      var_   |-> [f \in Features |-> var(f)],
      scale_ |-> [f \in Features |-> HandleZerosInScale(Isqrt(var(f)))]]

\* StandardScaler.transform: (x - mean_) / scale_ per feature.
ScalerTransform(M, sc) ==
  [i \in 1..Len(M) |->
     [f \in Features |-> ((M[i][f] * FP - sc.mean_[f]) * FP) \div sc.scale_[f]]]

\* ------------------------------------------------- IsolationForest: fit
\* max_samples="auto" and the depth limit IsolationForest.fit gives each tree:
\* max_depth = ceil(log2(max(max_samples, 2))).
MaxSamples(n) == IF n < MaxSamplesAuto THEN n ELSE MaxSamplesAuto

MaxDepth(n) == CeilLog2(IF MaxSamples(n) > 2 THEN MaxSamples(n) ELSE 2)

\* The values of feature f over the samples S of a node.
NodeValues(Z, S, f) == {Z[i][f] : i \in S}

\* The features the random splitter can split a node on: those that are not
\* constant over the node's samples.
NonConstant(Z, S) == {f \in Features : Cardinality(NodeValues(Z, S, f)) > 1}

\* RandomSplitter: threshold = rand_uniform(min, max), and a draw equal to max
\* is replaced by min, so min <= threshold < max.  One value stands for each
\* outcome: min itself, and an interior value of each gap between two
\* consecutive values of the node.
Thresholds(Z, S, f) ==
  LET V == NodeValues(Z, S, f)
  IN {SetMin(V)} \cup
     {(a + b) \div 2 : <<a, b>> \in
        {p \in V \X V : p[1] < p[2] /\ ~ \E w \in V : p[1] < w /\ w < p[2]}}

\* The partition of a node: samples with value <= threshold go left.
LeftOf(Z, S, f, t) == {i \in S : Z[i][f] <= t}
RightOf(Z, S, f, t) == {i \in S : Z[i][f] > t}

\* IsLeaf without the depth limit.
IsLeafNoDepthLimit(Z, S, depth, maxDepth) ==
  \/ Cardinality(S) < 2
  \/ {f \in Features : Cardinality({Z[i][f] : i \in S}) > 1} = {}

\* DepthFirstTreeBuilder: a node is a leaf when the depth limit is reached,
\* when it holds fewer than min_samples_split = 2 samples, or when the
\* splitter finds no non-constant feature.  (The builder's impurity test is
\* on the random targets fit draws, y = rnd.uniform(size=n): it makes a leaf
\* only of a node whose targets all coincide, and the targets are taken to
\* be pairwise different.)
IsLeaf(Z, S, depth, maxDepth) ==
  \/ depth >= maxDepth
  \/ Cardinality(S) < 2
  \/ NonConstant(Z, S) = {}

LeafNode(S, depth) ==
  [leaf |-> TRUE, feature |-> 0, threshold |-> 0,
   n_node_samples |-> Cardinality(S), depth |-> depth]

SplitNode(S, depth, f, t) ==
  [leaf |-> FALSE, feature |-> f, threshold |-> t,
   n_node_samples |-> Cardinality(S), depth |-> depth]

AddNode(tr, id, node) ==
  [k \in DOMAIN tr \cup {id} |-> IF k = id THEN node ELSE tr[k]]

\* The samples a tree may be built on: max_samples records drawn without
\* replacement (bootstrap=False), which is every record while n <= 256.
SampleSets(n) == {S \in SUBSET (1..n) : Cardinality(S) = MaxSamples(n)}

RootEntry(S) == [id |-> 1, samples |-> S, depth |-> 0]

\* ------------------------------------------------ IsolationForest: score
\* _average_path_length(n): 0 for n <= 1, 1 for n = 2, and otherwise
\* 2*(ln(n-1) + 0.5772156649) - 2*(n-1)/n; in 1/1000, tabulated for the
\* node sizes of tables of up to 8 records.
AveragePathLength(n) ==
  CASE n <= 1 -> 0
    [] n = 2 -> 1000
    [] n = 3 -> 1207
    [] n = 4 -> 1852
    [] n = 5 -> 2327
    [] n = 6 -> 2707
    [] n = 7 -> 3024
    [] OTHER -> 3296

\* The leaf a vector reaches in a tree (tree_.apply): at each internal node
\* left when the vector's feature value is <= the threshold.
RECURSIVE Apply(_, _, _)
Apply(tr, z, id) ==
  IF tr[id].leaf THEN id
  ELSE IF z[tr[id].feature] <= tr[id].threshold
       THEN Apply(tr, z, 2 * id)
       ELSE Apply(tr, z, 2 * id + 1)

\* The depth of a vector in one tree: the edges from the root to its leaf
\* plus _average_path_length(n_node_samples of the leaf); in 1/1000.
PathLength(tr, z) ==
  LET l == Apply(tr, z, 1)
  IN tr[l].depth * 1000 + AveragePathLength(tr[l].n_node_samples)

\* 2^(-k/8) for k = 0..8, in 1/ScoreFP.
Pow2Table == <<10000, 9170, 8409, 7711, 7071, 6484, 5946, 5453, 5000>>

\* 2^(-num/den) in 1/ScoreFP: the table, linearly interpolated.
Pow2Neg(num, den) ==
  LET m == num \div den
      r == num % den
      k == (8 * r) \div den
      w == (8 * r) % den
      v == Pow2Table[k + 1] - ((Pow2Table[k + 1] - Pow2Table[k + 2]) * w) \div den
  IN v \div Pow2(m)

\* ScoreSamples without the sign change: the score of the original paper.
ScoreSamplesPaper(forest, Z) ==
  LET den == Len(forest) * AveragePathLength(MaxSamples(Len(Z)))
      depths(i) == SumSeq([t \in 1..Len(forest) |-> PathLength(forest[t], Z[i])])
  IN [i \in 1..Len(Z) |-> Pow2Neg(depths(i), den)]

\* IsolationForest.score_samples: the opposite of the anomaly score of the
\* original paper, -2^(-E[depth] / c(max_samples)).
ScoreSamples(forest, Z) ==
  LET den == Len(forest) * AveragePathLength(MaxSamples(Len(Z)))
      depths(i) == SumSeq([t \in 1..Len(forest) |-> PathLength(forest[t], Z[i])])
  IN [i \in 1..Len(Z) |-> 0 - Pow2Neg(depths(i), den)]

\* The number of entries of s that are smaller than v / not larger than v.
CountLess(s, v) == Cardinality({i \in 1..Len(s) : s[i] < v})
CountLeq(s, v) == Cardinality({i \in 1..Len(s) : s[i] <= v})

\* The k-th smallest entry of s, k counted from 0.
KthSmallest(s, k) ==
  LET i == CHOOSE j \in 1..Len(s) : CountLess(s, s[j]) <= k /\ k < CountLeq(s, s[j])
  IN s[i]

\* Percentile as the entry at index floor(q/100 * n) of the sorted order,
\* with no interpolation.
PercentileAtRank(s, q) ==
  LET n == Len(s)
      k == (n * q) \div 100
  IN 100 * KthSmallest(s, IF k < n THEN k ELSE n - 1)

\* numpy.percentile(s, q), linear interpolation: the virtual index is
\* q/100 * (n-1); the result lies between its two neighbours in the sorted
\* order.  In 1/100 of the unit of s.
Percentile(s, q) ==
  LET n == Len(s)
      lo == ((n - 1) * q) \div 100
      fr == ((n - 1) * q) % 100
      hi == IF lo + 1 < n THEN lo + 1 ELSE lo
      a == KthSmallest(s, lo)
      b == KthSmallest(s, hi)
  IN 100 * a + (b - a) * fr

\* decision_function: score_samples(X) - offset_, in 1/(100*ScoreFP).
DecisionFunction(scores, off) == [i \in 1..Len(scores) |-> 100 * scores[i] - off]

\* Predict with the boundary on the anomalous side (<= 0).
PredictInclusive(scores, off) ==
  [i \in 1..Len(scores) |-> IF 100 * scores[i] - off <= 0 THEN 0 - 1 ELSE 1]

\* predict: +1 everywhere, -1 where the decision function is < 0.
Predict(scores, off) ==
  LET d == DecisionFunction(scores, off)
  IN [i \in 1..Len(scores) |-> IF d[i] < 0 THEN 0 - 1 ELSE 1]

\* IsAnomaly with the library's label convention taken the wrong way round.
IsAnomalyInverted(labels) == [i \in 1..Len(labels) |-> IF labels[i] = 1 THEN 1 ELSE 0]

\* Line 123: (df_detailed['anomaly'] == -1).astype(int)
IsAnomaly(labels) == [i \in 1..Len(labels) |-> IF labels[i] = 0 - 1 THEN 1 ELSE 0]

\* ------------------------------------------------------------- the script
Init ==
  /\ pc = "standardize"
  /\ \E c \in Runs : X = c[1] /\ n_estimators = c[2]
  /\ scaler = <<>>
  /\ X_scaled = <<>>
  /\ estimators_ = <<>>
  /\ tree = <<>>
  /\ stack = <<>>
  /\ offset_ = <<>>
  /\ anomaly = <<>>
  /\ anomaly_score = <<>>
  /\ is_anomaly = <<>>
  /\ anomaly_count = 0
  /\ score_table = <<>>

\* Lines 114-115: scaler = StandardScaler(); X_scaled = scaler.fit_transform(X)
FitTransform ==
  /\ pc = "standardize"
  /\ scaler' = ScalerFit(X)
  /\ X_scaled' = ScalerTransform(X, ScalerFit(X))
  /\ pc' = "fit"
  /\ UNCHANGED <<X, n_estimators, estimators_, tree, stack, offset_, anomaly, anomaly_score,
                 is_anomaly, anomaly_count, score_table>>

\* Line 119, fit: the builder starts the next tree on its sample of
\* max_samples records (all of them while n_samples <= 256).
BeginTree ==
  /\ pc = "fit"
  /\ Len(estimators_) < n_estimators
  /\ stack = <<>>
  /\ tree = <<>>
  /\ \E S \in SampleSets(Len(X_scaled)) : stack' = <<RootEntry(S)>>
  /\ UNCHANGED <<pc, X, n_estimators, scaler, X_scaled, estimators_, tree, offset_, anomaly,
                 anomaly_score, is_anomaly, anomaly_count, score_table>>

\* Line 119, fit: the builder pops a node that is a leaf.
GrowLeaf ==
  /\ pc = "fit"
  /\ stack # <<>>
  /\ LET e == Head(stack)
     IN /\ IsLeaf(X_scaled, e.samples, e.depth, MaxDepth(Len(X_scaled)))
        /\ tree' = AddNode(tree, e.id, LeafNode(e.samples, e.depth))
        /\ stack' = Tail(stack)
  /\ UNCHANGED <<pc, X, n_estimators, scaler, X_scaled, estimators_, offset_, anomaly,
                 anomaly_score, is_anomaly, anomaly_count, score_table>>

\* Line 119, fit: the builder pops a node and splits it on a random
\* non-constant feature at a random threshold; both children are pushed.
GrowSplit ==
  /\ pc = "fit"
  /\ stack # <<>>
  /\ LET e == Head(stack)
     IN /\ ~ IsLeaf(X_scaled, e.samples, e.depth, MaxDepth(Len(X_scaled)))
        /\ \E f \in NonConstant(X_scaled, e.samples) :
             \E t \in Thresholds(X_scaled, e.samples, f) :
               /\ tree' = AddNode(tree, e.id, SplitNode(e.samples, e.depth, f, t))
               /\ stack' =
                    <<[id |-> 2 * e.id,
                       samples |-> LeftOf(X_scaled, e.samples, f, t),
                       depth |-> e.depth + 1],
                      [id |-> 2 * e.id + 1,
                       samples |-> RightOf(X_scaled, e.samples, f, t),
                       depth |-> e.depth + 1]>> \o Tail(stack)
  /\ UNCHANGED <<pc, X, n_estimators, scaler, X_scaled, estimators_, offset_, anomaly,
                 anomaly_score, is_anomaly, anomaly_count, score_table>>

\* Line 119, fit: a finished tree joins estimators_.
EndTree ==
  /\ pc = "fit"
  /\ stack = <<>>
  /\ tree # <<>>
  /\ estimators_' = Append(estimators_, tree)
  /\ tree' = <<>>
  /\ UNCHANGED <<pc, X, n_estimators, scaler, X_scaled, stack, offset_, anomaly,
                 anomaly_score, is_anomaly, anomaly_count, score_table>>

\* Line 119, the end of fit: offset_ is the contamination percentile of the
\* scores of the training set.
FinishFitOn(scores) ==
  /\ pc = "fit"
  /\ offset_' = Percentile(scores, ContaminationPct)
  /\ pc' = "predict"
  /\ UNCHANGED <<X, n_estimators, scaler, X_scaled, estimators_, tree, stack,
                 anomaly, anomaly_score, is_anomaly, anomaly_count, score_table>>

FinishFit ==
  /\ score_table = <<>>
  /\ Len(estimators_) = n_estimators
  /\ FinishFitOn(ScoreSamples(estimators_, X_scaled))

\* Line 119, predict of fit_predict: df_detailed['anomaly'].
PredictOn(scores) ==
  /\ pc = "predict"
  /\ anomaly' = Predict(scores, offset_)
  /\ pc' = "score"
  /\ UNCHANGED <<X, n_estimators, scaler, X_scaled, estimators_, tree, stack,
                 offset_, anomaly_score, is_anomaly, anomaly_count, score_table>>

PredictStep ==
  /\ score_table = <<>>
  /\ PredictOn(ScoreSamples(estimators_, X_scaled))

\* Line 120: df_detailed['anomaly_score'] = iso_forest.score_samples(X_scaled)
ScoreOn(scores) ==
  /\ pc = "score"
  /\ anomaly_score' = scores
  /\ pc' = "label"
  /\ UNCHANGED <<X, n_estimators, scaler, X_scaled, estimators_, tree, stack,
                 offset_, anomaly, is_anomaly, anomaly_count, score_table>>

\* ScoreStep when the scoring call fits the scaler again on what it scores.
ScoreStepRefit ==
  /\ score_table = <<>>
  /\ pc = "score"
  /\ anomaly_score' = ScoreSamples(estimators_, X_scaled)
  /\ scaler' = ScalerFit(X_scaled)
  /\ pc' = "label"
  /\ UNCHANGED <<X, n_estimators, X_scaled, estimators_, tree, stack,
                 offset_, anomaly, is_anomaly, anomaly_count, score_table>>

ScoreStep ==
  /\ score_table = <<>>
  /\ ScoreOn(ScoreSamples(estimators_, X_scaled))

\* Line 123: df_detailed['is_anomaly']
LabelStep ==
  /\ pc = "label"
  /\ is_anomaly' = IsAnomaly(anomaly)
  /\ pc' = "count"
  /\ UNCHANGED <<X, n_estimators, scaler, X_scaled, estimators_, tree, stack, offset_,
                 anomaly, anomaly_score, anomaly_count, score_table>>

\* Line 125: anomaly_count = df_detailed['is_anomaly'].sum()
CountStep ==
  /\ pc = "count"
  /\ anomaly_count' = SumSeq(is_anomaly)
  /\ pc' = "done"
  /\ UNCHANGED <<X, n_estimators, scaler, X_scaled, estimators_, tree, stack, offset_,
                 anomaly, anomaly_score, is_anomaly, score_table>>

Next ==
  \/ FitTransform
  \/ BeginTree
  \/ GrowLeaf
  \/ GrowSplit
  \/ EndTree
  \/ FinishFit
  \/ PredictStep
  \/ ScoreStep
  \/ LabelStep
  \/ CountStep

Spec == Init /\ [][Next]_vars

\* ------------------------------------------- the thresholder on its own
\* Lines 119-125 over a table of scores: the forest is left out and stands
\* as the scores it gives the records.  Tables of 2..MaxLen records, of 100
\* records and of the script's 500.
TableLens == (2..MaxLen) \cup {100, 500}

\* Scores in [-1, 0): record i has rank (i * mult) % (n + 1) in steps of
\* step, with gaps of two sizes.  The ranks are pairwise distinct when mult
\* and n + 1 have no common factor, and repeat otherwise (tied scores).
ScoreTable(n, mult, step) ==
  [i \in 1..n |->
     LET v == (i * mult) % (n + 1)
     IN 0 - (1 + step * v + (v % 2))]

ThresholdInit ==
  /\ pc = "fit"
  /\ \E n \in TableLens, mult \in 1..MaxMult, step \in 2..MaxStep :
       score_table = ScoreTable(n, mult, step)
  /\ X = <<>>
  /\ n_estimators = 0
  /\ scaler = <<>>
  /\ X_scaled = <<>>
  /\ estimators_ = <<>>
  /\ tree = <<>>
  /\ stack = <<>>
  /\ offset_ = <<>>
  /\ anomaly = <<>>
  /\ anomaly_score = <<>>
  /\ is_anomaly = <<>>
  /\ anomaly_count = 0

TableFinishFit == score_table # <<>> /\ FinishFitOn(score_table)

TablePredict == score_table # <<>> /\ PredictOn(score_table)

TableScore == score_table # <<>> /\ ScoreOn(score_table)

ThresholdNext ==
  \/ TableFinishFit
  \/ TablePredict
  \/ TableScore
  \/ LabelStep
  \/ CountStep

ThresholdSpec == ThresholdInit /\ [][ThresholdNext]_vars

\* ------------------------------------------------------------------ claims
Records == 1..Len(anomaly_score)

Labelled == pc \in {"count", "done"}

\* C1, as stated, with AnomalyScore read as the spec reads it (higher = more
\* anomalous, so the score is -anomaly_score and the threshold -offset_): a
\* record is flagged exactly when its score is at or above the threshold.
\* (Read on the anomaly_score column itself, anomaly_score >= offset_, it
\* fails on every flagged record.)
C1_FlaggedIffAtOrAboveThreshold ==
  Labelled =>
    \A i \in Records : (is_anomaly[i] = 1) <=> (100 * anomaly_score[i] <= offset_)

\* C1, amended: a record is flagged exactly when its anomaly_score is
\* strictly below offset_ (lower = more anomalous); a record whose score
\* equals the threshold is not flagged, none below it is left unflagged and
\* none at or above it is flagged.
C1_FlaggedIffStrictlyBelowOffset ==
  Labelled =>
    \A i \in Records : (is_anomaly[i] = 1) <=> (100 * anomaly_score[i] < offset_)

\* C1 witness: a labelled table with a flagged and an unflagged record.
C1_Witness ==
  /\ pc = "done"
  /\ score_table = <<>>
  /\ \E i, j \in Records : is_anomaly[i] = 1 /\ is_anomaly[j] = 0

\* C3, as stated: every value of the anomaly_score column lies in (0, 1].
C3_ScoreInUnitInterval ==
  \A i \in Records : 0 < anomaly_score[i] /\ anomaly_score[i] <= ScoreFP

\* C3, amended: every value of the anomaly_score column lies in [-1, 0): the
\* column holds score_samples, the opposite of the (0, 1] score.
C3_ScoreInNegatedUnitInterval ==
  \A i \in Records : 0 - ScoreFP <= anomaly_score[i] /\ anomaly_score[i] < 0

\* C3 witness: a scored table of a forest of two trees with two different scores.
C3_Witness ==
  /\ pc = "label"
  /\ Len(estimators_) >= 2
  /\ \E i, j \in Records : anomaly_score[i] # anomaly_score[j]

\* C5: once fit has completed (offset_ is set), the predict, score_samples,
\* labelling and counting steps leave the scaler's parameters, the trees and
\* offset_ as they were.
C5_FittedStateFrozen ==
  [][(pc \in {"predict", "score", "label", "count"})
       => UNCHANGED <<scaler, estimators_, offset_>>]_vars

\* C5 witness: the run is over, after predict and score_samples ran on a
\* fitted scaler, forest and threshold.
C5_Witness ==
  /\ pc = "done"
  /\ scaler # <<>>
  /\ Len(estimators_) >= 2
  /\ Len(anomaly) = Len(X)
  /\ Len(anomaly_score) = Len(X)

ConstantFeature(f) == \A i, j \in 1..Len(X) : X[i][f] = X[j][f]

Fitted == scaler # <<>>

\* C7, as stated: fit returns parameters only when every feature has a
\* strictly positive standard deviation over the reference set (with a
\* constant feature it fails and returns none).
C7_FitRejectsConstantFeature ==
  Fitted => \A f \in Features : ~ ConstantFeature(f) /\ scaler.var_[f] > 0

\* C7, amended: fit returns parameters for every reference set; the divisor
\* scale_ of every feature is strictly positive, because a feature with the
\* same value in every record (variance 0) gets the divisor 1, and that
\* feature is 0 in every standardized record.
C7_ZeroScaleReplacedByOne ==
  Fitted =>
    \A f \in Features :
      /\ scaler.scale_[f] > 0
      /\ ConstantFeature(f) =>
           /\ scaler.var_[f] = 0
           /\ scaler.scale_[f] = FP
           /\ \A i \in 1..Len(X_scaled) : X_scaled[i][f] = 0
      /\ ~ ConstantFeature(f) => scaler.var_[f] > 0

\* C7 witness: a fitted scaler over a table with a constant feature and a
\* feature that varies.
C7_Witness ==
  /\ Fitted
  /\ \E f, g \in Features : ConstantFeature(f) /\ ~ ConstantFeature(g)

\* The builder is about to expand the node on top of its stack.
Expanding == pc = "fit" /\ stack # <<>>

DepthLimit == MaxDepth(Len(X_scaled))

\* The measure of the builder's stack: 2 * samples - 1 per pending node.
Potential(st) == SumSeq([k \in 1..Len(st) |-> 2 * Cardinality(st[k].samples) - 1])

AllTrees == {estimators_[k] : k \in 1..Len(estimators_)} \cup {tree}

\* Every node of every tree lies at a depth <= maxDepth, every pending node
\* holds at least one sample at a depth <= maxDepth, and the builder is
\* never stuck before the forest is complete.
C9_DepthBounded ==
  /\ \A tr \in AllTrees : \A id \in DOMAIN tr : tr[id].depth <= DepthLimit
  /\ \A k \in 1..Len(stack) :
       stack[k].samples # {} /\ stack[k].depth <= DepthLimit
  /\ pc = "fit" /\ Len(estimators_) < n_estimators =>
       ENABLED (BeginTree \/ GrowLeaf \/ GrowSplit \/ EndTree)

\* One expansion: the node becomes a leaf exactly when it holds at most one
\* sample, is at depth maxDepth, or every feature is constant over its
\* samples; a leaf records its sample count and depth; otherwise the split
\* value t of the chosen feature sends the samples <= t to one child and the
\* samples > t to the other, at least one to each; and the measure of the
\* stack drops, so the build ends.  strict: whether min < t is asked for (or
\* min <= t only).
C9_Expansion(strict) ==
  Expanding =>
    LET e == Head(stack)
        S == e.samples
        node == tree'[e.id]
        constant == \A f \in Features : \A i, j \in S : X_scaled[i][f] = X_scaled[j][f]
    IN /\ e.id \notin DOMAIN tree
       /\ e.id \in DOMAIN tree'
       /\ node.leaf <=> (Cardinality(S) <= 1 \/ e.depth = DepthLimit \/ constant)
       /\ node.n_node_samples = Cardinality(S)
       /\ node.depth = e.depth
       /\ node.leaf => stack' = Tail(stack)
       /\ ~ node.leaf =>
            LET f == node.feature
                t == node.threshold
                L == stack'[1]
                R == stack'[2]
            IN /\ f \in Features
               /\ \E i \in S : IF strict THEN X_scaled[i][f] < t ELSE X_scaled[i][f] <= t
               /\ \E i \in S : t < X_scaled[i][f]
               /\ L.samples = {i \in S : X_scaled[i][f] <= t}
               /\ R.samples = {i \in S : X_scaled[i][f] > t}
               /\ L.samples # {} /\ R.samples # {}
               /\ L.depth = e.depth + 1 /\ R.depth = e.depth + 1
               /\ Len(stack') = Len(stack) + 1
       /\ Potential(stack') < Potential(stack)

Reaching(tr, id) == {i \in 1..Len(X_scaled) : Apply(tr, X_scaled[i], 1) = id}

Scored == 1..Len(score_table)

\* Record a holds position k (counted from 0) of the scores listed from the
\* most anomalous (lowest score_samples) on.
AtPosition(a, k) ==
  /\ Cardinality({i \in Scored : score_table[i] < score_table[a]}) <= k
  /\ k < Cardinality({i \in Scored : score_table[i] <= score_table[a]})

PairwiseDistinct ==
  \A i, j \in Scored : i # j => score_table[i] # score_table[j]

ThresholdSet == score_table # <<>> /\ pc # "fit"

\* The score at position k: the score of any record that holds it.
ScoreAt(k) == score_table[CHOOSE a \in Scored : AtPosition(a, k)]

\* C2, as stated: the threshold is the score at position
\* floor(contamination * count) from the most anomalous; for 100 pairwise
\* distinct scores and contamination 0.1 the value at index 10.
C2_ThresholdIsScoreAtRank ==
  ThresholdSet =>
    /\ offset_ = 100 * ScoreAt((ContaminationPct * Len(score_table)) \div 100)
    /\ Len(score_table) = 100 /\ PairwiseDistinct => offset_ = 100 * ScoreAt(10)

\* C2, amended: the threshold is the linear interpolation at the fractional
\* position p = contamination * (count - 1) of the scores listed from the
\* most anomalous on: the value at index floor(p) plus the fraction p -
\* floor(p) of the step to the value at index floor(p) + 1.  For 100
\* pairwise distinct scores and contamination 0.1, p = 9.9: the threshold is
\* nine tenths of the way from the value at index 9 to the value at index
\* 10, strictly between the two.
C2_ThresholdInterpolates ==
  ThresholdSet =>
    LET n == Len(score_table)
        p == ContaminationPct * (n - 1)
        lo == p \div 100
        hi == IF lo + 1 < n THEN lo + 1 ELSE n - 1
    IN /\ offset_ = 100 * ScoreAt(lo) + (ScoreAt(hi) - ScoreAt(lo)) * (p % 100)
       /\ n = 100 /\ PairwiseDistinct =>
            /\ offset_ = 10 * ScoreAt(9) + 90 * ScoreAt(10)
            /\ 100 * ScoreAt(9) < offset_
            /\ offset_ < 100 * ScoreAt(10)

\* C2 witness: a threshold derived from 100 pairwise distinct scores.
C2_Witness ==
  ThresholdSet /\ Len(score_table) = 100 /\ PairwiseDistinct

Counted == score_table # <<>> /\ pc = "done"

\* Every flagged record is strictly more anomalous than every unflagged one.
FlaggedBelowUnflagged ==
  \A i, j \in Scored :
    is_anomaly[i] = 1 /\ is_anomaly[j] = 0 => anomaly_score[i] < anomaly_score[j]

\* C10, as stated: with pairwise distinct scores, the threshold derived from
\* and applied to the same table flags floor(contamination * count) records;
\* 50 of 500; every flagged record is strictly more anomalous than every
\* unflagged one.
C10_FlagsFloorOfContaminationTimesCount ==
  Counted /\ PairwiseDistinct =>
    /\ anomaly_count = (ContaminationPct * Len(score_table)) \div 100
    /\ Len(score_table) = 500 => anomaly_count = 50
    /\ FlaggedBelowUnflagged

\* C10, amended: with pairwise distinct scores, the number of flagged
\* records is ceil(contamination * (count - 1)); 50 of 500; every flagged
\* record is strictly more anomalous than every unflagged one.
C10_FlagsCeilOfContaminationTimesCountLessOne ==
  Counted /\ PairwiseDistinct =>
    /\ anomaly_count = (ContaminationPct * (Len(score_table) - 1) + 99) \div 100
    /\ anomaly_count = Cardinality({i \in Scored : is_anomaly[i] = 1})
    /\ Len(score_table) = 500 => anomaly_count = 50
    /\ FlaggedBelowUnflagged

\* C10 witness: the count over 500 pairwise distinct scores.
C10_Witness ==
  Counted /\ PairwiseDistinct /\ Len(score_table) = 500 /\ anomaly_count = 50

====
